---- MODULE Spec2Model ----
(* Model of video_analyzer/audio_processor.py: the AudioProcessor class,   *)
(* its constructor, extract_audio and transcribe, together with the part   *)
(* of the filesystem and of the external tools (ffmpeg, pydub, the         *)
(* faster-whisper model) that these methods observe.                       *)
EXTENDS Integers, Sequences, FiniteSets, TLC

VARIABLES status, self, loads, fs, ret

vars == <<status, self, loads, fs, ret>>

(***************************************************************************)
(* Bounds and input domains                                                *)
(***************************************************************************)
MaxSegs == 2

Videos == {"v1", "v2"}
Dirs == {"d1", "d2"}
ModelSizes == {"medium", "small"}
Languages == {"en", "zh"}

SampleRate == 16000
Channels == 1

Unset == "unset"
\* no path returned (the call raised)
NoPath == <<>>

(***************************************************************************)
(* Filesystem: for each directory whether it exists and the content of     *)
(* its audio.wav (NoFile when there is none).                              *)
(***************************************************************************)
Wav(video, complete) ==
    [video |-> video, channels |-> Channels, rate |-> SampleRate,
     complete |-> complete]

\* audio.wav is absent
NoFile == [video |-> "", channels |-> 0, rate |-> 0, complete |-> FALSE]

Contents == {Wav(v, c) : v \in Videos, c \in BOOLEAN}

DirStates ==
    {[exists |-> FALSE, wav |-> NoFile]} \cup
    {[exists |-> TRUE, wav |-> w] : w \in {NoFile} \cup Contents}

\* audio_path = output_dir / "audio.wav"
AudioPath(output_dir) == <<output_dir, "audio.wav">>

\* output_dir.mkdir(parents=True, exist_ok=True)
Mkdir(f, output_dir) ==
    [f EXCEPT ![output_dir] = [exists |-> TRUE, wav |-> f[output_dir].wav]]

\* variant: an existing audio.wav is left as it is (no overwrite)
WriteWavKeep(f, output_dir, content) ==
    IF f[output_dir].wav # NoFile THEN f
    ELSE [f EXCEPT ![output_dir] = [exists |-> TRUE, wav |-> content]]

\* a tool opens audio_path for writing and replaces what was there
WriteWav(f, output_dir, content) ==
    [f EXCEPT ![output_dir] = [exists |-> TRUE, wav |-> content]]

(***************************************************************************)
(* Log records: one per call made on the module's logger, at any level,    *)
(* whether or not the configured handler emits it.                         *)
(***************************************************************************)
Log(level, msg) == [level |-> level, msg |-> msg]

\* the message of the RuntimeError raised by extract_audio
RemediationText ==
    <<"Failed to extract audio. Please install ffmpeg using:",
      "Ubuntu/Debian: sudo apt-get update && sudo apt-get install -y ffmpeg",
      "MacOS: brew install ffmpeg",
      "Windows: choco install ffmpeg">>

NoError == [type |-> "none", msg |-> <<>>]

(***************************************************************************)
(* AudioProcessor.__init__                                                 *)
(***************************************************************************)
LoadOutcomes == {"ok", "import_error", "load_error"}
\* how subprocess.run(['ffmpeg', '-version'], check=True) ends: exit 0,
\* CalledProcessError, FileNotFoundError, or another exception such as the
\* PermissionError of an ffmpeg file that is not executable
ProbeOutcomes == {"ok", "exit_nonzero", "not_found", "os_error"}

UnsetSelf == [model |-> Unset, device |-> Unset, has_ffmpeg |-> Unset]

\* the debug calls made before WhisperModel(...) is constructed
PreLoadLogs ==
    <<Log("debug", "Using HuggingFace cache directory"),
      Log("debug", "Using device")>>

\* the outer handler after the import or the model load raised: logged,
\* re-raised
InitRaised(load) ==
    [raised |-> TRUE,
     self |-> [model |-> Unset,
               device |-> IF load = "import_error" THEN Unset ELSE "cpu",
               has_ffmpeg |-> Unset],
     loads |-> 0,
     logs |-> (IF load = "import_error" THEN <<>> ELSE PreLoadLogs)
              \o <<Log("error", "Error loading Whisper model")>>]

\* the outer handler after the probe raised something the inner handler
\* does not catch: the model is loaded, has_ffmpeg was never assigned
InitProbeRaised(model_size) ==
    [raised |-> TRUE,
     self |-> [model |-> model_size, device |-> "cpu", has_ffmpeg |-> Unset],
     loads |-> 1,
     logs |-> PreLoadLogs
              \o <<Log("debug", "Successfully loaded Whisper model"),
                   Log("error", "Error loading Whisper model")>>]

\* the model loaded; the `ffmpeg -version` probe sets has_ffmpeg
InitLoaded(model_size, probe) ==
    [raised |-> FALSE,
     self |-> [model |-> model_size, device |-> "cpu",
               has_ffmpeg |-> (probe = "ok")],
     loads |-> 1,
     logs |-> PreLoadLogs
              \o <<Log("debug", "Successfully loaded Whisper model")>>
              \o (IF probe = "ok" THEN <<>>
                  ELSE <<Log("warning", "FFmpeg not found")>>)]

\* what the constructor leaves behind, given how the model load and the
\* probe turn out
InitRun(model_size, load, probe) ==
    IF load # "ok" THEN InitRaised(load)
    ELSE IF probe = "os_error" THEN InitProbeRaised(model_size)
    ELSE InitLoaded(model_size, probe)

AudioProcessorInit ==
    /\ status = "none"
    /\ \E model_size \in ModelSizes, load \in LoadOutcomes, probe \in ProbeOutcomes :
          LET run == InitRun(model_size, load, probe) IN
          \* the probe does not run when the load failed
          /\ (load # "ok") => probe = "ok"
          /\ status' = IF run.raised THEN "failed" ELSE "ready"
          /\ self' = run.self
          /\ loads' = loads + run.loads
          /\ ret' = [op |-> "__init__", model_size |-> model_size,
                     load |-> load, probe |-> probe,
                     raised |-> run.raised, logs |-> run.logs]
    /\ UNCHANGED fs


(***************************************************************************)
(* AudioProcessor.extract_audio                                            *)
(***************************************************************************)
\* how the ffmpeg child process ends: exit 0, a non-zero exit
\* (CalledProcessError), no executable (FileNotFoundError), or another
\* exception of subprocess.run such as PermissionError
PrimaryOutcomes == {"ok", "exit_nonzero", "not_found", "os_error"}
\* whether the captured stderr of a failed ffmpeg decodes as UTF-8
StderrKinds == {"utf8", "not_utf8"}
\* how the pydub path ends: success, AudioSegment.from_file raises,
\* or export raises after opening the destination
FallbackOutcomes == {"ok", "decode_error", "export_error"}

\* variant: a failed pydub attempt is retried once
FallbackRunRetry(video_path, output_dir, fb, f) ==
    IF fb = "ok"
    THEN [attempts |-> <<"pydub">>,
          returned |-> AudioPath(output_dir),
          error |-> NoError,
          fs |-> WriteWav(f, output_dir, Wav(video_path, TRUE)),
          logs |-> <<Log("debug", "Successfully extracted audio using pydub")>>]
    ELSE [attempts |-> <<"pydub", "pydub">>,
          returned |-> NoPath,
          error |-> [type |-> "RuntimeError", msg |-> RemediationText],
          fs |-> IF fb = "export_error"
                 THEN WriteWav(f, output_dir, Wav(video_path, FALSE))
                 ELSE f,
          logs |-> <<Log("error", "Error extracting audio using pydub")>>]

\* the pydub fallback of the CalledProcessError handler
FallbackRun(video_path, output_dir, fb, f) ==
    IF fb = "ok"
    THEN [attempts |-> <<"pydub">>,
          returned |-> AudioPath(output_dir),
          error |-> NoError,
          fs |-> WriteWav(f, output_dir, Wav(video_path, TRUE)),
          logs |-> <<Log("debug", "Successfully extracted audio using pydub")>>]
    ELSE [attempts |-> <<"pydub">>,
          returned |-> NoPath,
          error |-> [type |-> "RuntimeError", msg |-> RemediationText],
          fs |-> IF fb = "export_error"
                 THEN WriteWav(f, output_dir, Wav(video_path, FALSE))
                 ELSE f,
          logs |-> <<Log("error", "Error extracting audio using pydub")>>]

\* the body of extract_audio from filesystem f, when ffmpeg ends as prim
\* (having opened the destination before a non-zero exit iff primPartial,
\* with captured stderr of kind stderr) and pydub, if it runs, ends as fb
ExtractBody(video_path, output_dir, prim, primPartial, stderr, fb, f) ==
    LET f1 == Mkdir(f, output_dir) IN
    CASE prim = "ok" ->
           [attempts |-> <<"ffmpeg">>,
            returned |-> AudioPath(output_dir),
            error |-> NoError,
            fs |-> WriteWav(f1, output_dir, Wav(video_path, TRUE)),
            logs |-> <<Log("debug", "Successfully extracted audio using ffmpeg")>>]
      [] prim = "not_found" ->
           [attempts |-> <<"ffmpeg">>,
            returned |-> NoPath,
            error |-> [type |-> "FileNotFoundError", msg |-> <<>>],
            fs |-> f1,
            logs |-> <<>>]
      [] prim = "os_error" ->
           [attempts |-> <<"ffmpeg">>,
            returned |-> NoPath,
            error |-> [type |-> "PermissionError", msg |-> <<>>],
            fs |-> f1,
            logs |-> <<>>]
      [] prim = "exit_nonzero" ->
           LET f2 == IF primPartial
                     THEN WriteWav(f1, output_dir, Wav(video_path, FALSE))
                     ELSE f1
               r == FallbackRun(video_path, output_dir, fb, f2)
           IN IF stderr = "not_utf8"
              \* e.stderr.decode() raises inside the handler, before the
              \* first logger call and before pydub
              THEN [attempts |-> <<"ffmpeg">>,
                    returned |-> NoPath,
                    error |-> [type |-> "UnicodeDecodeError", msg |-> <<>>],
                    fs |-> f2,
                    logs |-> <<>>]
              ELSE [attempts |-> <<"ffmpeg">> \o r.attempts,
                    returned |-> r.returned,
                    error |-> r.error,
                    fs |-> r.fs,
                    logs |-> <<Log("error", "FFmpeg error"),
                               Log("info", "Falling back to pydub for audio extraction...")>>
                             \o r.logs]

\* variant: ffmpeg is skipped when the probe at construction did not find it
ExtractRunGated(slf, video_path, output_dir, prim, primPartial, stderr, fb, f) ==
    IF slf.has_ffmpeg = TRUE
    THEN ExtractBody(video_path, output_dir, prim, primPartial, stderr, fb, f)
    ELSE FallbackRun(video_path, output_dir, fb, Mkdir(f, output_dir))

\* one call of extract_audio on the instance slf, none of whose attributes
\* the method reads
ExtractRun(slf, video_path, output_dir, prim, primPartial, stderr, fb, f) ==
    ExtractBody(video_path, output_dir, prim, primPartial, stderr, fb, f)

extract_audio ==
    /\ status = "ready"
    /\ \E video_path \in Videos, output_dir \in Dirs,
          prim \in PrimaryOutcomes, primPartial \in BOOLEAN,
          stderr \in StderrKinds, fb \in FallbackOutcomes :
          \* inputs the call does not read are fixed, so that each call
          \* is drawn once
          /\ (prim # "exit_nonzero") =>
                (~primPartial /\ stderr = "utf8" /\ fb = "ok")
          /\ (stderr = "not_utf8") => fb = "ok"
          /\ LET run == ExtractRun(self, video_path, output_dir,
                                   prim, primPartial, stderr, fb, fs) IN
             /\ fs' = run.fs
             /\ ret' = [op |-> "extract_audio",
                        video_path |-> video_path, output_dir |-> output_dir,
                        prim |-> prim, primPartial |-> primPartial,
                        stderr |-> stderr, fb |-> fb,
                        pre |-> fs[output_dir],
                        attempts |-> run.attempts,
                        returned |-> run.returned,
                        error |-> run.error,
                        logs |-> run.logs]
    /\ UNCHANGED <<status, self, loads>>

(***************************************************************************)
(* AudioProcessor.transcribe                                               *)
(***************************************************************************)
\* Texts are sequences of one-character strings.
\* raw words and segments as faster-whisper emits them; times in tenths of
\* a second, probabilities in percent
RawWord(word, start, end, probability) ==
    [word |-> word, start |-> start, end |-> end,
     probability |-> probability, tokens |-> <<7>>]

\* segment.words is None when isNone, else the sequence items
RawSegment(id, text, start, end, isNone, items) ==
    [id |-> id, seek |-> 0, text |-> text, start |-> start, end |-> end,
     words |-> [isNone |-> isNone, items |-> items]]

RawSegs ==
    { RawSegment(1, <<" ", "a", " ", "b">>, 0, 12, FALSE,
                 <<RawWord(<<" ", "a">>, 0, 5, 93), RawWord(<<" ", "b">>, 6, 12, 41)>>),
      RawSegment(2, <<>>, 20, 20, TRUE, <<>>) }

RECURSIVE SeqsUpTo(_, _)
SeqsUpTo(S, n) ==
    IF n = 0 THEN {<<>>}
    ELSE LET shorter == SeqsUpTo(S, n - 1) IN
         shorter \cup {Append(q, x) : q \in {r \in shorter : Len(r) = n - 1}, x \in S}

\* how the model collaborator behaves on one call: model.transcribe raises
\* ("call"), the lazy segment sequence raises after yielding failAt items
\* ("drain"), building the result raises ("build"), or nothing raises
Faults == {"none", "call", "drain", "build"}

ModelOutcomes ==
    {[fault |-> ft, items |-> it, failAt |-> k, language |-> lg] :
        ft \in Faults, it \in SeqsUpTo(RawSegs, MaxSegs),
        k \in 0..MaxSegs, lg \in Languages}

\* " ".join(texts)
RECURSIVE Join(_)
Join(texts) ==
    IF Len(texts) = 0 THEN <<>>
    ELSE IF Len(texts) = 1 THEN texts[1]
    ELSE texts[1] \o <<" ">> \o Join(Tail(texts))

\* the dict built for one word
WordData(word) ==
    [word |-> word.word, start |-> word.start, end |-> word.end,
     probability |-> word.probability]

\* for word in (segment.words or [])
WordsOrEmpty(words) == IF words.isNone THEN <<>> ELSE words.items

\* the dict built for one segment
SegmentData(segment) ==
    [text |-> segment.text, start |-> segment.start, end |-> segment.end,
     words |-> [i \in 1..Len(WordsOrEmpty(segment.words)) |->
                   WordData(WordsOrEmpty(segment.words)[i])]]

\* segment_data = [ {...} for segment in segments_list ]
SegmentDataList(segments_list) ==
    [i \in 1..Len(segments_list) |-> SegmentData(segments_list[i])]

\* variant: segments with empty text are left out of the full text
FullTextSkipEmpty(segments_list) ==
    LET keep == SelectSeq(segments_list, LAMBDA sg : sg.text # <<>>) IN
    Join([i \in 1..Len(keep) |-> keep[i].text])

\* " ".join(segment.text for segment in segments_list)
FullText(segments_list) ==
    Join([i \in 1..Len(segments_list) |-> segments_list[i].text])

NoneResult == [kind |-> "None"]

AudioTranscript(text, segments, language) ==
    [kind |-> "AudioTranscript", text |-> text, segments |-> segments,
     language |-> language]

ErrorLogs == <<Log("error", "Error transcribing audio"), Log("error", "exception")>>

\* the handler of `except Exception`: logged, None returned
Caught == [raised |-> FALSE, result |-> NoneResult, logs |-> ErrorLogs]

\* transcribe once list(segments) has produced segments_list
AfterDrain(out) ==
    LET segments_list == out.items IN
    IF Len(segments_list) = 0
    THEN [raised |-> FALSE, result |-> NoneResult,
          logs |-> <<Log("warning", "No speech detected in audio")>>]
    ELSE IF out.fault = "build"
    THEN Caught
    ELSE [raised |-> FALSE,
          result |-> AudioTranscript(FullText(segments_list),
                                     SegmentDataList(segments_list),
                                     out.language),
          logs |-> <<>>]

\* variant: the lazy sequence is drained outside the try block
TranscribeRunDrainUncaught(out) ==
    IF out.fault = "call" THEN Caught
    ELSE IF out.fault = "drain"
    THEN [raised |-> TRUE, result |-> NoneResult, logs |-> <<>>]
    ELSE AfterDrain(out)

\* one call of transcribe when the model behaves as out
TranscribeRun(out) ==
    IF out.fault = "call" \/ out.fault = "drain" THEN Caught
    ELSE AfterDrain(out)

\* variant: a failed transcription discards the model handle
transcribe_resets_model ==
    /\ status = "ready"
    /\ \E out \in ModelOutcomes :
          /\ (out.fault = "drain") => out.failAt <= Len(out.items)
          /\ (out.fault # "drain") => out.failAt = 0
          /\ (out.fault = "call") => (out.items = <<>> /\ out.language = "en")
          /\ LET run == TranscribeRun(out) IN
             /\ ret' = [op |-> "transcribe", model |-> self.model, out |-> out,
                        raised |-> run.raised, result |-> run.result,
                        logs |-> run.logs]
             /\ self' = IF run.logs = ErrorLogs
                        THEN [self EXCEPT !.model = Unset] ELSE self
    /\ UNCHANGED <<status, loads, fs>>

transcribe ==
    /\ status = "ready"
    /\ \E out \in ModelOutcomes :
          \* inputs the call does not read are fixed, so that each call
          \* is drawn once
          /\ (out.fault = "drain") => out.failAt <= Len(out.items)
          /\ (out.fault # "drain") => out.failAt = 0
          /\ (out.fault = "call") => (out.items = <<>> /\ out.language = "en")
          /\ LET run == TranscribeRun(out) IN
             ret' = [op |-> "transcribe", model |-> self.model, out |-> out,
                     raised |-> run.raised, result |-> run.result,
                     logs |-> run.logs]
    /\ UNCHANGED <<status, self, loads, fs>>

Init ==
    /\ status = "none"
    /\ self = UnsetSelf
    /\ loads = 0
    /\ fs \in [Dirs -> DirStates]
    /\ ret = [op |-> "none"]

Next ==
    \/ AudioProcessorInit
    \/ extract_audio
    \/ transcribe

Spec == Init /\ [][Next]_vars

(***************************************************************************)
(* Properties                                                              *)
(***************************************************************************)
ExtractDone == ret.op = "extract_audio"
TranscribeDone == ret.op = "transcribe"
InitDone == ret.op = "__init__"

Count(seq, x) == Cardinality({i \in DOMAIN seq : seq[i] = x})

\* the filesystem the last extract_audio call started from
PreFs == [fs EXCEPT ![ret.output_dir] = ret.pre]

\* C1: whenever the ffmpeg invocation fails (non-zero exit or executable not
\* found) the pydub fallback is attempted, and if the fallback succeeds
\* extract_audio returns output_dir/audio.wav without raising.
C1_FallbackOnAnyPrimaryFailure ==
    (ExtractDone /\ ret.prim # "ok") =>
        /\ Count(ret.attempts, "pydub") >= 1
        /\ (ret.fb = "ok") =>
              (ret.returned = AudioPath(ret.output_dir) /\ ret.error = NoError)

\* C2: extract_audio raises the RuntimeError with the remediation text
\* whenever both strategies fail, and every exception escaping extract_audio
\* is that error, raised only after ffmpeg and pydub were both attempted and
\* both failed.
C2_OnlyExtractionErrorEscapes ==
    ExtractDone =>
        /\ (ret.prim # "ok" /\ Count(ret.attempts, "pydub") = 1 /\ ret.fb # "ok")
              => ret.error = [type |-> "RuntimeError", msg |-> RemediationText]
        /\ (ret.error # NoError) =>
              /\ ret.error = [type |-> "RuntimeError", msg |-> RemediationText]
              /\ ret.attempts = <<"ffmpeg", "pydub">>
              /\ ret.prim # "ok"
              /\ ret.fb # "ok"

\* C3: when extract_audio raises the extraction error, output_dir/audio.wav
\* is exactly what it was before the call (neither created nor altered).
C3_NoPartialOutputOnFailure ==
    (ExtractDone /\ ret.error.type = "RuntimeError") =>
        fs[ret.output_dir].wav = ret.pre.wav

\* C4: transcribe never raises; it returns a transcript exactly when nothing
\* raised and at least one segment was drained, and None otherwise, with a
\* "no speech" warning for the empty sequence and error logs for an error.
C4_TranscribeNeverRaises ==
    TranscribeDone =>
        /\ ~ret.raised
        /\ (ret.result.kind = "AudioTranscript") <=>
              (ret.out.fault = "none" /\ Len(ret.out.items) >= 1)
        /\ (ret.result.kind # "AudioTranscript") => ret.result = NoneResult
        /\ (ret.out.fault \in {"none", "build"} /\ ret.out.items = <<>>) =>
              ret.logs = <<Log("warning", "No speech detected in audio")>>
        /\ (ret.out.fault \in {"call", "drain"}
              \/ (ret.out.fault = "build" /\ ret.out.items # <<>>)) =>
              (ret.result = NoneResult /\ ret.logs = ErrorLogs)

C4_Witness ==
    /\ TranscribeDone
    /\ ret.out.fault = "drain"
    /\ ret.out.failAt >= 1
    /\ ret.result = NoneResult
    /\ ~ret.raised

\* position in the full text just before segment i's text
RECURSIVE Offset(_, _)
Offset(segs, i) ==
    IF i = 1 THEN 0 ELSE Offset(segs, i - 1) + Len(segs[i - 1].text) + 1

\* C5: a returned transcript has one segment per raw segment, in emission
\* order, each text copied verbatim, and its full text is those texts in
\* that order separated by single spaces.
C5_FullTextIsSpaceJoined ==
    (TranscribeDone /\ ret.result.kind = "AudioTranscript") =>
        LET segs == ret.result.segments
            raw == ret.out.items
            n == Len(segs)
            text == ret.result.text IN
        /\ n = Len(raw)
        /\ \A i \in 1..n : segs[i].text = raw[i].text
        /\ Len(text) = Offset(segs, n) + Len(segs[n].text)
        /\ \A i \in 1..n :
              /\ SubSeq(text, Offset(segs, i) + 1,
                        Offset(segs, i) + Len(segs[i].text)) = segs[i].text
              /\ (i > 1) => text[Offset(segs, i)] = " "

C5_Witness ==
    /\ TranscribeDone
    /\ ret.result.kind = "AudioTranscript"
    /\ Len(ret.result.segments) = 2
    /\ ret.out.items[1].id = 2
    /\ ret.out.items[2].id = 1
    /\ ret.result.text = <<" ", " ", "a", " ", "b">>

\* C6: construction raises when the model fails to load; when the model
\* loads, construction succeeds whatever the ffmpeg probe does, and
\* has_ffmpeg is true exactly when the probe ran and exited with 0.
C6_ConstructionOutcome ==
    InitDone =>
        /\ (ret.load # "ok") => (ret.raised /\ status = "failed")
        /\ (ret.load = "ok") =>
              /\ ~ret.raised
              /\ status = "ready"
              /\ self.model = ret.model_size
              /\ self.has_ffmpeg = (ret.probe = "ok")

\* C7: has_ffmpeg does not gate extraction: ffmpeg is invoked first whatever
\* the flag, pydub is attempted only after ffmpeg actually exited non-zero
\* (and always then, when the handler gets as far as the fallback), and an
\* instance differing only in has_ffmpeg makes the same attempts with the
\* same result on the same inputs and tool outcomes.
C7_FlagDoesNotGate ==
    ExtractDone =>
        LET twin == [self EXCEPT !.has_ffmpeg = ~self.has_ffmpeg]
            other == ExtractRun(twin, ret.video_path, ret.output_dir,
                                ret.prim, ret.primPartial, ret.stderr,
                                ret.fb, PreFs) IN
        /\ ret.attempts[1] = "ffmpeg"
        /\ (Count(ret.attempts, "pydub") >= 1) <=>
              (ret.prim = "exit_nonzero" /\ ret.stderr = "utf8")
        /\ other.attempts = ret.attempts
        /\ other.returned = ret.returned
        /\ other.error = ret.error
        /\ other.fs = fs

C7_Witness ==
    /\ ExtractDone
    /\ self.has_ffmpeg = FALSE
    /\ ret.prim = "ok"
    /\ ret.attempts = <<"ffmpeg">>
    /\ ret.returned = AudioPath(ret.output_dir)

C8_SuccessState ==
    (ExtractDone /\ ret.error = NoError) =>
        /\ fs[ret.output_dir].exists
        /\ fs[ret.output_dir].wav = Wav(ret.video_path, TRUE)
        /\ ret.returned = AudioPath(ret.output_dir)

C8_Step ==
    (ret'.op = "extract_audio") =>
        /\ \A d \in Dirs \ {ret'.output_dir} : fs'[d] = fs[d]
        /\ (/\ ExtractDone /\ ret.error = NoError /\ ret'.error = NoError
            /\ ret'.video_path = ret.video_path
            /\ ret'.output_dir = ret.output_dir)
              => (fs' = fs /\ ret'.returned = ret.returned)

\* C8: a successful extract_audio leaves the directory existing and
\* audio.wav holding the waveform of that call's video, whatever was there
\* before; a call touches nothing but its own output_dir/audio.wav, and
\* repeating a successful call with the same inputs leaves the filesystem as
\* it was and returns the same path.
C8_SingleFileOverwritten == [](C8_SuccessState) /\ [][C8_Step]_vars

C8_Witness ==
    /\ ExtractDone
    /\ ret.error = NoError
    /\ ret.pre.wav # NoFile
    /\ ret.pre.wav.video # ret.video_path
    /\ fs[ret.output_dir].wav = Wav(ret.video_path, TRUE)

C9_Frame ==
    (status = "ready") => (status' = "ready" /\ self' = self /\ loads' = loads)

\* C9: once constructed, no extract_audio or transcribe call changes the
\* model handle, the device or has_ffmpeg, and the model is loaded once.
C9_StateImmutable == []((status = "ready") => loads = 1) /\ [][C9_Frame]_vars

C9_Witness ==
    /\ status = "ready"
    /\ TranscribeDone
    /\ ret.out.fault = "call"
    /\ ret.model = self.model
    /\ self.model \in ModelSizes
    /\ loads = 1

\* C10: in one extract_audio call ffmpeg is invoked exactly once and first,
\* pydub at most once and only as the second attempt after ffmpeg failed;
\* when ffmpeg succeeds the path is returned with no fallback.
C10_AttemptOrder ==
    ExtractDone =>
        /\ Len(ret.attempts) \in {1, 2}
        /\ ret.attempts[1] = "ffmpeg"
        /\ Count(ret.attempts, "ffmpeg") = 1
        /\ Count(ret.attempts, "pydub") <= 1
        /\ (Len(ret.attempts) = 2) =>
              (ret.attempts[2] = "pydub" /\ ret.prim # "ok")
        /\ (ret.prim = "ok") =>
              (ret.attempts = <<"ffmpeg">>
               /\ ret.returned = AudioPath(ret.output_dir)
               /\ ret.error = NoError)

C10_Witness ==
    /\ ExtractDone
    /\ ret.prim = "exit_nonzero"
    /\ ret.fb = "decode_error"
    /\ ret.attempts = <<"ffmpeg", "pydub">>
    /\ ret.error.type = "RuntimeError"
====
